---- MODULE Spec2Model ----
(***************************************************************************)
(* Model of @japa/assert: the Assert class (assertion ledger, plan,        *)
(* validate, the schema gate) and the runner plugin that validates the     *)
(* ledger when a test has been executed.                                   *)
(***************************************************************************)
EXTENDS Integers, Sequences, FiniteSets, TLC

(***************************************************************************)
(* Bounds                                                                  *)
(***************************************************************************)
\* longest sequence of calls made on one Assert instance
MaxCalls == 4
\* largest integer handed to plan()
MaxPlanned == 2
\* longest test body (calls on ctx.assert) the runner executes
MaxBody == 3
\* how many times the plugin function is applied to the Test class
MaxApplications == 2
\* calls each of two concurrently running tests makes
MaxInterleaved == 2
\* registerApiSpecs calls of a process that registers more than once
MaxRegistrations == 2
\* longest array handed to the subset assertions as the needle
MaxLen == 2

(***************************************************************************)
(* JavaScript values                                                       *)
(***************************************************************************)
Undefined == [type |-> "undefined"]
NaN == [type |-> "NaN"]
Num(n) == [type |-> "number", value |-> n]
Null == 0

\* variant: loose equality (==), which coerces a number and a string and
\* equates null with undefined
StrictEquals_loose(x, y) ==
  \/ x.type # "NaN" /\ x = y
  \/ {x.type, y.type} = {"null", "undefined"}
  \/ x.type = "number" /\ y.type = "string" /\ ToString(x.value) = y.value
  \/ x.type = "string" /\ y.type = "number" /\ x.value = ToString(y.value)

\* x === y on the values above (NaN is not equal to itself)
StrictEquals(x, y) == x.type # "NaN" /\ x = y

\* `${x}` inside a template literal
TemplateString(x) ==
  CASE x.type = "number" -> ToString(x.value)
    [] x.type = "NaN" -> "NaN"
    [] x.type = "undefined" -> "undefined"

\* the values of type `number` handed to plan(assertionsToExpect: number):
\* the counts a test can plan, a negative number and NaN
PlanArgs == {Num(n) : n \in 0..MaxPlanned} \cup {Num(-1), NaN}

\* a file URL and what fileURLToPath makes of it
StringPath(path) == [type |-> "string", value |-> path]
FileURL(path) == [type |-> "URL", href |-> "file://" \o path, pathname |-> path]
IsURL(x) == x.type = "URL"
fileURLToPath(url) == url.pathname

\* the schema locations handed to registerApiSpecs
SchemaLists ==
  { <<StringPath("/api-spec.json")>>, <<FileURL("/v2/api-spec.json")>> }

\* JSON-like values handed to the subset assertions
Str(text) == [type |-> "string", value |-> text]
Bool(b) == [type |-> "boolean", value |-> b]
JsNull == [type |-> "null"]
Arr(items) == [type |-> "array", items |-> items]

\* an object over the keys a and b: `keys` are its own keys, a key it does
\* not have reads as undefined
Keys == {"a", "b"}
Obj(keys, a, b) ==
  [type |-> "object", keys |-> keys,
   props |-> [a |-> IF "a" \in keys THEN a ELSE Undefined,
              b |-> IF "b" \in keys THEN b ELSE Undefined]]

Primitives ==
  {Num(1), Num(2), Str("1"), Bool(TRUE), JsNull, Undefined, NaN}
PropValues ==
  {Num(1), Num(2), Undefined, Arr(<<Num(1)>>), Obj({"a"}, Num(1), Undefined)}
Objects ==
  {Obj(keys, a, b) : keys \in SUBSET Keys, a \in PropValues, b \in PropValues}
ArraysOf(items, n) == UNION {{Arr(l) : l \in [1..k -> items]} : k \in 0..n}

\* the values the tests pass as haystack (actual) and as needle (expected)
Haystacks ==
  Primitives \cup Objects \cup
  ArraysOf({Num(1), Num(2), Num(3), Obj(Keys, Num(1), Num(2))}, MaxLen + 1)
Needles ==
  Primitives \cup Objects \cup
  ArraysOf({Num(1), Num(2), Num(4), Obj({"a"}, Num(1), Undefined),
            Obj(Keys, Num(1), Num(2))}, MaxLen)

\* values handed to rejects / doesNotRejects: error classes, regular
\* expressions, the function under test and what it raises
Class(name) == [type |-> "function", class |-> name]
RegExp(source) == [type |-> "RegExp", source |-> source]
ErrorObject(class, message) ==
  [type |-> "error", class |-> class, message |-> message]

\* fn: an async function that resolves, or one that raises `raised`
Resolves == [type |-> "function", settles |-> "resolves", raised |-> Undefined]
Raises(raised) ==
  [type |-> "function", settles |-> "rejects", raised |-> raised]

\* class HttpError extends Error
Ancestors(class) ==
  IF class = "HttpError" THEN {"HttpError", "Error"} ELSE {class}
InstanceOf(x, constructor) ==
  x.type = "error" /\ constructor.class \in Ancestors(x.class)

\* !!x
Truthy(x) ==
  CASE x.type \in {"undefined", "null", "NaN"} -> FALSE
    [] x.type = "number" -> x.value # 0
    [] x.type = "string" -> x.value # ""
    [] x.type = "boolean" -> x.value
    [] OTHER -> TRUE

\* x.message of a truthy value: a primitive has no such property
MessageOf(x) == IF x.type = "error" THEN Str(x.message) ELSE Undefined

\* String(x) of a message or of undefined
StringOf(x) == IF x.type = "string" THEN x.value ELSE "undefined"

\* regExp.test(x) for the regular expression /foo/: the text includes foo
RegExpTest(regExp, x) ==
  <<regExp.source, StringOf(x)>> \in {<<"foo", "foo">>, <<"foo", "foobar">>}

Messages == {"foo", "foobar", ""}
RaisedValues ==
  {JsNull, Undefined, Num(0), Str(""), Str("foo")} \cup
  {ErrorObject(c, m) : c \in {"Error", "HttpError"}, m \in Messages}
Functions ==
  {Undefined, Resolves} \cup {Raises(v) : v \in RaisedValues}

\* the calls (fn), (fn, errType) and (fn, constructor, regExp)
Expectations ==
  {<<e, Undefined>> :
     e \in {Undefined, Class("Error"), Class("HttpError"), RegExp("foo"),
            Str("foo"), Str("")}} \cup
  {<<c, r>> : c \in {Class("Error"), Class("HttpError")},
              r \in {RegExp("foo"), Str("foo"), Str("")}}

(***************************************************************************)
(* State                                                                   *)
(***************************************************************************)
\* the test contexts; each owns at most one Assert instance (ctx.assert)
Tests == {1, 2}

VARIABLES
  instances,                \* contexts whose `assert` getter has run
  assertions,               \* Assert#assertions of each instance
  errors,                   \* the Error objects created so far
  thrown,                   \* what the last call on each instance threw
                            \* (Null: it returned)
  hasInstalledApiValidator, \* static Assert.hasInstalledApiValidator
  apiDefinitionsPath,       \* paths given to the chai plugin in use
  registerLog,              \* the registerApiSpecs calls made, in order
  log,                      \* the calls made on each instance, in order
  executedCallbacks,        \* number of callbacks registered with Test.executed
  phase,                    \* where the runner is with each test
  testErrors,               \* the errors the runner recorded for each test
  nextCallback              \* the next executed-callback to call for each test

vars == <<instances, assertions, errors, thrown, hasInstalledApiValidator,
          apiDefinitionsPath, registerLog, log, executedCallbacks, phase,
          testErrors, nextCallback>>
static == <<hasInstalledApiValidator, apiDefinitionsPath, registerLog>>
runner == <<executedCallbacks, phase, testErrors, nextCallback>>

\* the `assertions` object of a new Assert()
NewAssertions == [planned |-> Undefined, total |-> 0, mismatchError |-> Null]

Init ==
  /\ instances = {}
  /\ assertions = [a \in Tests |-> NewAssertions]
  /\ errors = <<>>
  /\ thrown = [a \in Tests |-> Null]
  /\ hasInstalledApiValidator = FALSE
  /\ apiDefinitionsPath = <<>>
  /\ registerLog = <<>>
  /\ log = [a \in Tests |-> <<>>]
  /\ executedCallbacks = 0
  /\ phase = [a \in Tests |-> "pending"]
  /\ testErrors = [a \in Tests |-> <<>>]
  /\ nextCallback = [a \in Tests |-> 1]

(***************************************************************************)
(* Helpers                                                                 *)
(***************************************************************************)
\* where in the test's code the current call is made
CallSite(a) == <<a, Len(log[a]) + 1>>

\* an Error object; its stack is fixed when it is created
NewError(name, message, site) ==
  [name |-> name, message |-> message, stack |-> site]

Logged(a, entry) == log' = [log EXCEPT ![a] = Append(@, entry)]

\* the call on instance `a` returns, or throws the error object `ref`
Returns(a) == thrown' = [thrown EXCEPT ![a] = Null]
Throws(a, ref) == thrown' = [thrown EXCEPT ![a] = ref]

\* TestContext.getter('assert', () => new Assert(), true): created on first
\* access, the same instance afterwards
Getter(a) == instances' = instances \cup {a}

\* variant: the plural follows the number of assertions run
MismatchMessage_suffixOnTotal(planned, total) ==
  LET suffix == IF total = 1 THEN "" ELSE "s"
  IN "Planned for " \o TemplateString(planned) \o " assertion" \o suffix
       \o ", but ran " \o ToString(total)

\* the message validate() builds
MismatchMessage(planned, total) ==
  LET suffix == IF StrictEquals(planned, Num(1)) THEN "" ELSE "s"
  IN "Planned for " \o TemplateString(planned) \o " assertion" \o suffix
       \o ", but ran " \o ToString(total)

\* variant: only too few assertions are reported (planned > total)
ValidateOutcome_tooFewOnly(led) ==
  IF led.planned = Undefined THEN "return"
  ELSE IF led.planned.type = "number" /\ led.planned.value > led.total
       THEN IF led.mismatchError = Null THEN "TypeError" ELSE "throw"
       ELSE "return"

\* variant: a falsy plan (0, NaN) is taken for no plan (!this.planned)
ValidateOutcome_falsyPlanned(led) ==
  IF led.planned \in {Undefined, NaN, Num(0)} THEN "return"
  ELSE IF ~StrictEquals(led.planned, Num(led.total))
       THEN IF led.mismatchError = Null THEN "TypeError" ELSE "throw"
       ELSE "return"

\* variant: without the `planned === undefined` return
ValidateOutcome_noUndefinedReturn(led) ==
  IF led.planned = Undefined
  THEN IF led.mismatchError = Null THEN "TypeError" ELSE "throw"
  ELSE IF ~StrictEquals(led.planned, Num(led.total))
       THEN IF led.mismatchError = Null THEN "TypeError" ELSE "throw"
       ELSE "return"

\* validate() of the ledger `led`: "return", "throw" or "TypeError"
ValidateOutcome(led) ==
  IF led.planned = Undefined THEN "return"
  ELSE IF ~StrictEquals(led.planned, Num(led.total))
       THEN IF led.mismatchError = Null THEN "TypeError" ELSE "throw"
       ELSE "return"

\* variant: the error is created when validate() finds the mismatch
validate_newError(a) ==
  LET led == assertions[a]
      outcome == ValidateOutcome(led)
  IN IF outcome = "return"
     THEN /\ Returns(a)
          /\ errors' = errors
     ELSE /\ errors' = Append(errors,
               NewError("Error", MismatchMessage(led.planned, led.total),
                        CallSite(a)))
          /\ Throws(a, Len(errors) + 1)

\* assertions.validate(): the effect on the heap and on what is thrown
validate(a) ==
  LET led == assertions[a]
      outcome == ValidateOutcome(led)
  IN CASE outcome = "return" ->
            /\ Returns(a)
            /\ errors' = errors
       [] outcome = "throw" ->
            /\ errors' = [errors EXCEPT ![led.mismatchError].message =
                            MismatchMessage(led.planned, led.total)]
            /\ Throws(a, led.mismatchError)
       [] outcome = "TypeError" ->
            /\ errors' = Append(errors,
                 NewError("TypeError", "Cannot set properties of null", CallSite(a)))
            /\ Throws(a, Len(errors) + 1)

\* incrementAssertionsCount(): the ledger afterwards
incrementAssertionsCount(led) == [led EXCEPT !.total = @ + 1]

(***************************************************************************)
(* Operations                                                              *)
(***************************************************************************)
\* variant: the error of the first plan() is kept (mismatchError ||= error)
Plan_keepFirstError(a, assertionsToExpect) ==
  /\ Getter(a)
  /\ errors' = Append(errors, NewError("Error", "", CallSite(a)))
  /\ assertions' = [assertions EXCEPT ![a] =
       [@ EXCEPT !.planned = assertionsToExpect,
                 !.mismatchError = IF @ = Null THEN Len(errors) + 1 ELSE @]]
  /\ Returns(a)
  /\ Logged(a, [op |-> "plan", arg |-> assertionsToExpect])
  /\ UNCHANGED static

\* variant: the error is created but not stored on the ledger
Plan_errorNotStored(a, assertionsToExpect) ==
  /\ Getter(a)
  /\ errors' = Append(errors, NewError("Error", "", CallSite(a)))
  /\ assertions' = [assertions EXCEPT ![a] =
       [@ EXCEPT !.planned = assertionsToExpect]]
  /\ Returns(a)
  /\ Logged(a, [op |-> "plan", arg |-> assertionsToExpect])
  /\ UNCHANGED static

\* assert.plan(assertionsToExpect)
Plan(a, assertionsToExpect) ==
  /\ Getter(a)
  /\ errors' = Append(errors, NewError("Error", "", CallSite(a)))
  /\ assertions' = [assertions EXCEPT ![a] =
       [@ EXCEPT !.planned = assertionsToExpect,
                 !.mismatchError = Len(errors) + 1]]
  /\ Returns(a)
  /\ Logged(a, [op |-> "plan", arg |-> assertionsToExpect])
  /\ UNCHANGED static

\* variant: one ledger shared by the instances (static assertions)
IncrementAssertionsCount_shared(a) ==
  /\ Getter(a)
  /\ assertions' = [b \in Tests |->
       IF b \in instances \cup {a}
       THEN incrementAssertionsCount(assertions[b]) ELSE assertions[b]]
  /\ Returns(a)
  /\ Logged(a, [op |-> "incrementAssertionsCount"])
  /\ UNCHANGED <<errors, static>>

\* assert.incrementAssertionsCount(), called by the test itself
IncrementAssertionsCount(a) ==
  /\ Getter(a)
  /\ assertions' = [assertions EXCEPT ![a] = incrementAssertionsCount(@)]
  /\ Returns(a)
  /\ Logged(a, [op |-> "incrementAssertionsCount"])
  /\ UNCHANGED <<errors, static>>

\* a chai assertion that fails raises a new AssertionError
ChaiOutcome(a, passes) ==
  IF passes
  THEN /\ Returns(a)
       /\ errors' = errors
  ELSE /\ errors' = Append(errors, NewError("AssertionError", "", CallSite(a)))
       /\ Throws(a, Len(errors) + 1)

\* assert.assert(expression)
assert(a, expression) ==
  /\ Getter(a)
  /\ assertions' = [assertions EXCEPT ![a] = incrementAssertionsCount(@)]
  /\ ChaiOutcome(a, expression)
  /\ Logged(a, [op |-> "assert"])
  /\ UNCHANGED static

\* assert.fail()
Fail(a) ==
  /\ Getter(a)
  /\ assertions' = [assertions EXCEPT ![a] = incrementAssertionsCount(@)]
  /\ ChaiOutcome(a, FALSE)
  /\ Logged(a, [op |-> "fail"])
  /\ UNCHANGED static

\* variant: the stored error is dropped once validate() has run
Validate_clearsError(a) ==
  /\ Getter(a)
  /\ validate(a)
  /\ Logged(a, [op |-> "validate"])
  /\ assertions' = [assertions EXCEPT ![a].mismatchError = Null]
  /\ UNCHANGED static

\* assert.assertions.validate(), called directly
Validate(a) ==
  /\ Getter(a)
  /\ validate(a)
  /\ Logged(a, [op |-> "validate"])
  /\ UNCHANGED <<assertions, static>>

\* subsetCompare(expected, actual) of ./utils.js
RECURSIVE subsetCompare(_, _)
subsetCompare(expected, actual) ==
  CASE expected.type = "array" ->
         /\ actual.type = "array"
         /\ \A i \in 1..Len(expected.items) :
              \E j \in 1..Len(actual.items) :
                subsetCompare(expected.items[i], actual.items[j])
    [] expected.type = "object" ->
         /\ actual.type = "object"
         /\ \A k \in expected.keys :
              /\ k \in actual.keys
              /\ subsetCompare(expected.props[k], actual.props[k])
    [] OTHER -> StrictEquals(expected, actual)

\* variant: the error is raised when the expression is truthy
Evaluate_inverted(a, expression, message, stackProps) ==
  IF ~expression
  THEN /\ Returns(a)
       /\ errors' = errors
  ELSE /\ errors' = Append(errors,
            [name |-> "AssertionError", message |-> message,
             stack |-> CallSite(a), operator |-> stackProps.operator,
             actual |-> stackProps.actual, expected |-> stackProps.expected])
       /\ Throws(a, Len(errors) + 1)

\* assert.evaluate(expression, message, stackProps): chai's assert raises
\* an AssertionError carrying the operator, the actual and the expected
\* value when the expression is not truthy
Evaluate(a, expression, message, stackProps) ==
  IF expression
  THEN /\ Returns(a)
       /\ errors' = errors
  ELSE /\ errors' = Append(errors,
            [name |-> "AssertionError", message |-> message,
             stack |-> CallSite(a), operator |-> stackProps.operator,
             actual |-> stackProps.actual, expected |-> stackProps.expected])
       /\ Throws(a, Len(errors) + 1)

\* variant: the arguments of the comparison are exchanged
ContainsSubset_swapped(a, haystack, needle) ==
  /\ Getter(a)
  /\ assertions' = [assertions EXCEPT ![a] = incrementAssertionsCount(@)]
  /\ Evaluate(a, subsetCompare(haystack, needle),
              "expected #{act} to contain subset #{exp}",
              [expected |-> needle, actual |-> haystack,
               operator |-> "containsSubset"])
  /\ Logged(a, [op |-> "containsSubset", haystack |-> haystack,
                needle |-> needle])
  /\ UNCHANGED static

\* variant: the comparison is negated, as in notContainsSubset
ContainsSubset_negated(a, haystack, needle) ==
  /\ Getter(a)
  /\ assertions' = [assertions EXCEPT ![a] = incrementAssertionsCount(@)]
  /\ Evaluate(a, ~subsetCompare(needle, haystack),
              "expected #{act} to contain subset #{exp}",
              [expected |-> needle, actual |-> haystack,
               operator |-> "containsSubset"])
  /\ Logged(a, [op |-> "containsSubset", haystack |-> haystack,
                needle |-> needle])
  /\ UNCHANGED static

\* variant: the error carries the haystack as expected, the needle as actual
ContainsSubset_swappedProps(a, haystack, needle) ==
  /\ Getter(a)
  /\ assertions' = [assertions EXCEPT ![a] = incrementAssertionsCount(@)]
  /\ Evaluate(a, subsetCompare(needle, haystack),
              "expected #{act} to contain subset #{exp}",
              [expected |-> haystack, actual |-> needle,
               operator |-> "containsSubset"])
  /\ Logged(a, [op |-> "containsSubset", haystack |-> haystack,
                needle |-> needle])
  /\ UNCHANGED static

\* assert.containsSubset(haystack, needle)
ContainsSubset(a, haystack, needle) ==
  /\ Getter(a)
  /\ assertions' = [assertions EXCEPT ![a] = incrementAssertionsCount(@)]
  /\ Evaluate(a, subsetCompare(needle, haystack),
              "expected #{act} to contain subset #{exp}",
              [expected |-> needle, actual |-> haystack,
               operator |-> "containsSubset"])
  /\ Logged(a, [op |-> "containsSubset", haystack |-> haystack,
                needle |-> needle])
  /\ UNCHANGED static

\* variant: the negated form compares the haystack against the needle
NotContainsSubset_swapped(a, haystack, needle) ==
  /\ Getter(a)
  /\ assertions' = [assertions EXCEPT ![a] = incrementAssertionsCount(@)]
  /\ Evaluate(a, ~subsetCompare(haystack, needle),
              "expected #{act} to not contain subset #{exp}",
              [expected |-> needle, actual |-> haystack,
               operator |-> "notContainsSubset"])
  /\ Logged(a, [op |-> "notContainsSubset", haystack |-> haystack,
                needle |-> needle])
  /\ UNCHANGED static

\* assert.notContainsSubset(haystack, needle)
NotContainsSubset(a, haystack, needle) ==
  /\ Getter(a)
  /\ assertions' = [assertions EXCEPT ![a] = incrementAssertionsCount(@)]
  /\ Evaluate(a, ~subsetCompare(needle, haystack),
              "expected #{act} to not contain subset #{exp}",
              [expected |-> needle, actual |-> haystack,
               operator |-> "notContainsSubset"])
  /\ Logged(a, [op |-> "notContainsSubset", haystack |-> haystack,
                needle |-> needle])
  /\ UNCHANGED static

\* what the code after `await fn()` decides: nothing to raise, or the
\* arguments of evaluate(false, message, {expected, actual})
Pass == [fails |-> FALSE]
Failure(message, expected, actual) ==
  [fails |-> TRUE, message |-> message, expected |-> expected,
   actual |-> actual]

\* the value `await fn()` leaves in raisedException
RaisedException(fn) ==
  IF fn.settles = "rejects" THEN fn.raised ELSE JsNull

\* rejects(fn, errType, regExp) after the await
RejectsVerdict(raisedException, errType, regExp) ==
  LET expectedExceptionClass ==
        IF Truthy(errType) /\ errType.type = "function" THEN errType ELSE JsNull
      givenRegex ==
        IF Truthy(regExp) /\ regExp.type = "RegExp" THEN regExp ELSE JsNull
      givenMessage ==
        IF Truthy(regExp) /\ regExp.type = "string" THEN regExp ELSE JsNull
      fromErrType ==
        ~Truthy(givenRegex) /\ ~Truthy(givenMessage) /\ Truthy(errType)
      expectedErrorMessageRegex ==
        IF fromErrType /\ errType.type = "RegExp" THEN errType ELSE givenRegex
      expectedErrorMessage ==
        IF fromErrType /\ errType.type = "string" THEN errType
        ELSE givenMessage
  IN IF ~Truthy(raisedException)
     THEN Failure("expected #{this} to throw an error", Str(""), Str(""))
     ELSE IF /\ Truthy(expectedExceptionClass)
             /\ ~InstanceOf(raisedException, expectedExceptionClass)
     THEN Failure("expected #{this} to throw #{exp} but #{act} was thrown",
                  expectedExceptionClass, raisedException)
     ELSE IF /\ Truthy(expectedErrorMessageRegex)
             /\ ~RegExpTest(expectedErrorMessageRegex,
                            MessageOf(raisedException))
     THEN Failure(
            "expected #{this} to throw error matching #{exp} but got #{act}",
            expectedErrorMessageRegex, MessageOf(raisedException))
     ELSE IF /\ Truthy(expectedErrorMessage)
             /\ ~StrictEquals(MessageOf(raisedException), expectedErrorMessage)
     THEN Failure(
            "expected #{this} to throw error including #{exp} but got #{act}",
            expectedErrorMessage, MessageOf(raisedException))
     ELSE Pass

\* doesNotRejects(fn, errType, regExp) after the await
DoesNotRejectsVerdict(raisedException, errType, regExp) ==
  LET expectedExceptionClass ==
        IF Truthy(errType) /\ errType.type = "function"
        THEN errType ELSE Undefined
      givenRegex ==
        IF Truthy(regExp) /\ regExp.type = "RegExp" THEN regExp ELSE Undefined
      givenMessage ==
        IF Truthy(regExp) /\ regExp.type = "string" THEN regExp ELSE Undefined
      hasMatchingErrorClass ==
        /\ Truthy(expectedExceptionClass)
        /\ InstanceOf(raisedException, expectedExceptionClass)
      fromErrType ==
        ~Truthy(givenRegex) /\ givenMessage = Undefined /\ Truthy(errType)
      expectedErrorMessageRegex ==
        IF fromErrType /\ errType.type = "RegExp" THEN errType ELSE givenRegex
      expectedErrorMessage ==
        IF fromErrType /\ errType.type = "string" THEN errType
        ELSE givenMessage
  IN IF ~Truthy(raisedException)
     THEN Pass
     ELSE IF /\ ~Truthy(expectedErrorMessage)
             /\ ~Truthy(expectedErrorMessageRegex)
             /\ ~Truthy(expectedExceptionClass)
     THEN Failure(
            "expected #{this} to not throw an error but #{act} was thrown",
            expectedExceptionClass, raisedException)
     ELSE IF /\ hasMatchingErrorClass
             /\ ~Truthy(expectedErrorMessage)
             /\ ~Truthy(expectedErrorMessageRegex)
     THEN Failure("expected #{this} to not throw #{exp} but #{act} was thrown",
                  expectedExceptionClass, raisedException)
     ELSE IF /\ Truthy(expectedErrorMessageRegex)
             /\ RegExpTest(expectedErrorMessageRegex,
                           MessageOf(raisedException))
     THEN Failure("expected #{this} to throw error not matching #{exp}",
                  expectedErrorMessageRegex, MessageOf(raisedException))
     ELSE IF /\ Truthy(expectedErrorMessage)
             /\ StrictEquals(MessageOf(raisedException), expectedErrorMessage)
     THEN IF hasMatchingErrorClass
          THEN Failure(
                 "expected #{this} to not throw #{exp} but #{act} was thrown",
                 expectedExceptionClass, raisedException)
          ELSE Failure("expected #{this} to throw error not including #{act}",
                       expectedErrorMessage, MessageOf(raisedException))
     ELSE Pass

\* the AssertionError evaluate(false, ...) raises inside the async method
RejectionError(site, operator, failure) ==
  [name |-> "AssertionError", message |-> failure.message, stack |-> site,
   operator |-> operator, actual |-> failure.actual,
   expected |-> failure.expected]

\* the part of an async assertion that runs at the call, up to `await
\* fn()`: the count, and the error when fn is not a function; the call
\* returns a promise and raises nothing
CalledAsync(a, operator, fn, errType, regExp) ==
  /\ Getter(a)
  /\ assertions' = [assertions EXCEPT ![a] = incrementAssertionsCount(@)]
  /\ errors' =
       IF fn.type # "function"
       THEN Append(errors,
              RejectionError(CallSite(a), operator,
                Failure("expected #{this} to be a function", Str(""), Str(""))))
       ELSE errors
  /\ Returns(a)
  /\ Logged(a, [op |-> operator, fn |-> fn, errType |-> errType,
                regExp |-> regExp])
  /\ UNCHANGED static

\* variant: the count is not taken at the call, before the await
Rejects_notCountedAtCall(a, fn, errType, regExp) ==
  /\ Getter(a)
  /\ errors' =
       IF fn.type # "function"
       THEN Append(errors,
              RejectionError(CallSite(a), "rejects",
                Failure("expected #{this} to be a function", Str(""), Str(""))))
       ELSE errors
  /\ Returns(a)
  /\ Logged(a, [op |-> "rejects", fn |-> fn, errType |-> errType,
                regExp |-> regExp])
  /\ UNCHANGED <<assertions, static>>

\* assert.rejects(fn, errType, regExp), up to the await
Rejects(a, fn, errType, regExp) ==
  CalledAsync(a, "rejects", fn, errType, regExp)

\* assert.doesNotRejects(fn, errType, regExp), up to the await
DoesNotRejects(a, fn, errType, regExp) ==
  CalledAsync(a, "doesNotRejects", fn, errType, regExp)

\* the calls of `operator` on `a` whose promise has not settled
AwaitedCalls(a, operator) ==
  {k \in 1..Len(log[a]) :
     /\ log[a][k].op = operator
     /\ \A j \in 1..Len(log[a]) :
          log[a][j].op = "settled" => log[a][j].call # k}

\* the promise of call k settles: it rejects with the error evaluate
\* raised, or resolves; the caller that awaits it sees the error
Settled(a, k, verdict) ==
  /\ IF log[a][k].fn.type # "function"
     THEN /\ errors' = errors
          /\ Throws(a, CHOOSE i \in 1..Len(errors) : errors[i].stack = <<a, k>>)
     ELSE IF verdict.fails
     THEN /\ errors' = Append(errors,
               RejectionError(CallSite(a), log[a][k].op, verdict))
          /\ Throws(a, Len(errors) + 1)
     ELSE /\ errors' = errors
          /\ Returns(a)
  /\ Logged(a, [op |-> "settled", call |-> k])
  /\ UNCHANGED <<instances, assertions, static>>

\* assert.rejects, from the await to the end
RejectsSettled(a) ==
  \E k \in AwaitedCalls(a, "rejects") :
    Settled(a, k,
      IF log[a][k].fn.type # "function" THEN Pass
      ELSE RejectsVerdict(RaisedException(log[a][k].fn),
                          log[a][k].errType, log[a][k].regExp))

\* assert.doesNotRejects, from the await to the end
DoesNotRejectsSettled(a) ==
  \E k \in AwaitedCalls(a, "doesNotRejects") :
    Settled(a, k,
      IF log[a][k].fn.type # "function" THEN Pass
      ELSE DoesNotRejectsVerdict(RaisedException(log[a][k].fn),
                                 log[a][k].errType, log[a][k].regExp))

\* variant: the flag is flipped by each registration
RegisterApiSpecs_toggle(schemaPathsOrURLs) ==
  /\ hasInstalledApiValidator' = ~hasInstalledApiValidator
  /\ apiDefinitionsPath' =
       [i \in 1..Len(schemaPathsOrURLs) |->
          IF IsURL(schemaPathsOrURLs[i])
          THEN fileURLToPath(schemaPathsOrURLs[i])
          ELSE schemaPathsOrURLs[i].value]
  /\ registerLog' = Append(registerLog, schemaPathsOrURLs)
  /\ UNCHANGED <<instances, assertions, errors, thrown, log>>

\* variant: the locations of the first registration stay in effect
RegisterApiSpecs_firstWins(schemaPathsOrURLs) ==
  /\ hasInstalledApiValidator' = TRUE
  /\ apiDefinitionsPath' =
       IF hasInstalledApiValidator
       THEN apiDefinitionsPath
       ELSE [i \in 1..Len(schemaPathsOrURLs) |->
               IF IsURL(schemaPathsOrURLs[i])
               THEN fileURLToPath(schemaPathsOrURLs[i])
               ELSE schemaPathsOrURLs[i].value]
  /\ registerLog' = Append(registerLog, schemaPathsOrURLs)
  /\ UNCHANGED <<instances, assertions, errors, thrown, log>>

\* Assert.registerApiSpecs(schemaPathsOrURLs)
RegisterApiSpecs(schemaPathsOrURLs) ==
  /\ hasInstalledApiValidator' = TRUE
  /\ apiDefinitionsPath' =
       [i \in 1..Len(schemaPathsOrURLs) |->
          IF IsURL(schemaPathsOrURLs[i])
          THEN fileURLToPath(schemaPathsOrURLs[i])
          ELSE schemaPathsOrURLs[i].value]
  /\ registerLog' = Append(registerLog, schemaPathsOrURLs)
  /\ UNCHANGED <<instances, assertions, errors, thrown, log>>

\* variant: the response is handed to the matcher without reading the flag
IsValidApiResponse_noGate(a, matches) ==
  /\ Getter(a)
  /\ ChaiOutcome(a, matches)
  /\ Logged(a, [op |-> "isValidApiResponse", matches |-> matches])
  /\ UNCHANGED <<assertions, static>>

\* assert.isValidApiResponse(response); `matches` is the verdict of the
\* schema matcher on the response
IsValidApiResponse(a, matches) ==
  /\ Getter(a)
  /\ IF ~hasInstalledApiValidator
     THEN /\ errors' = Append(errors,
               NewError("Error",
                        "Cannot validate responses without defining api schemas",
                        CallSite(a)))
          /\ Throws(a, Len(errors) + 1)
     ELSE ChaiOutcome(a, matches)
  /\ Logged(a, [op |-> "isValidApiResponse", matches |-> matches])
  /\ UNCHANGED <<assertions, static>>

\* variant: the ledger is validated whatever the flag says
TestExecuted_always(a, hasError) ==
  /\ Getter(a)
  /\ validate(a)
  /\ log' = [log EXCEPT ![a] =
       @ \o <<[op |-> "executed", hasError |-> hasError],
              [op |-> "validate"]>>]
  /\ UNCHANGED <<assertions, static>>

\* variant: the callback validates when the test has failed (if (hasError))
TestExecuted_inverted(a, hasError) ==
  /\ IF hasError
     THEN /\ Getter(a)
          /\ validate(a)
          /\ log' = [log EXCEPT ![a] =
               @ \o <<[op |-> "executed", hasError |-> hasError],
                      [op |-> "validate"]>>]
     ELSE /\ Logged(a, [op |-> "executed", hasError |-> hasError])
          /\ Returns(a)
          /\ UNCHANGED <<instances, errors>>
  /\ UNCHANGED <<assertions, static>>

\* the callback the plugin registers with Test.executed / Test.dispose
TestExecuted(a, hasError) ==
  /\ IF ~hasError
     THEN /\ Getter(a)
          /\ validate(a)
          /\ log' = [log EXCEPT ![a] =
               @ \o <<[op |-> "executed", hasError |-> hasError],
                      [op |-> "validate"]>>]
     ELSE /\ Logged(a, [op |-> "executed", hasError |-> hasError])
          /\ Returns(a)
          /\ UNCHANGED <<instances, errors>>
  /\ UNCHANGED <<assertions, static>>

(***************************************************************************)
(* The plugin and the runner that executes a test                          *)
(***************************************************************************)
\* the plugin function assert() returns, applied once more: it defines the
\* getter again and registers one more callback with Test.executed
ApplyPlugin ==
  /\ executedCallbacks' = executedCallbacks + 1
  /\ UNCHANGED <<instances, assertions, errors, thrown, static, log,
                 phase, testErrors, nextCallback>>

\* the payload of test:end
HasError(t) == testErrors[t] # <<>>

\* the runner records what the body or a callback threw, in phase 'test'
Recorded(t, ref) ==
  testErrors' = [testErrors EXCEPT ![t] =
                   Append(@, [phase |-> "test", error |-> ref])]

\* the runner computes the context and starts the body of the test
StartTest(t) ==
  /\ executedCallbacks >= 1
  /\ phase[t] = "pending"
  /\ phase' = [phase EXCEPT ![t] = "running"]
  /\ UNCHANGED <<instances, assertions, errors, thrown, static, log,
                 executedCallbacks, testErrors, nextCallback>>

\* after a call made by the body: an error it raised ends the body
AfterBodyCall(t) ==
  /\ IF thrown'[t] # Null
     THEN /\ Recorded(t, thrown'[t])
          /\ phase' = [phase EXCEPT ![t] = "executed"]
     ELSE UNCHANGED <<phase, testErrors>>
  /\ UNCHANGED <<executedCallbacks, nextCallback>>

\* the body throws an error of its own: throw new Error('foo')
BodyThrows(t) ==
  /\ phase[t] = "running"
  /\ errors' = Append(errors, NewError("Error", "foo", CallSite(t)))
  /\ Throws(t, Len(errors) + 1)
  /\ Logged(t, [op |-> "throw"])
  /\ Recorded(t, Len(errors) + 1)
  /\ phase' = [phase EXCEPT ![t] = "executed"]
  /\ UNCHANGED <<instances, assertions, static, executedCallbacks,
                 nextCallback>>

\* the body returns
BodyReturns(t) ==
  /\ phase[t] = "running"
  /\ phase' = [phase EXCEPT ![t] = "executed"]
  /\ UNCHANGED <<instances, assertions, errors, thrown, static, log,
                 executedCallbacks, testErrors, nextCallback>>

\* the runner calls the next executed-callback with the hasError flag; an
\* error the callback raises is recorded and ends the test, as does the
\* return of the last callback
RunCallback(t) ==
  /\ phase[t] = "executed"
  /\ nextCallback[t] <= executedCallbacks
  /\ TestExecuted(t, HasError(t))
  /\ nextCallback' = [nextCallback EXCEPT ![t] = @ + 1]
  /\ IF thrown'[t] # Null
     THEN /\ Recorded(t, thrown'[t])
          /\ phase' = [phase EXCEPT ![t] = "ended"]
     ELSE /\ UNCHANGED testErrors
          /\ phase' = [phase EXCEPT ![t] =
               IF nextCallback[t] = executedCallbacks THEN "ended" ELSE @]
  /\ UNCHANGED executedCallbacks

\* the options of the plugin: with or without openApi.schemas
PluginOptions ==
  {[openApi |-> FALSE]} \cup
  {[openApi |-> TRUE, schemas |-> l] : l \in SchemaLists}

\* assert(options): registers the schemas when options.openApi is given
AssertPlugin(options) ==
  IF options.openApi
  THEN RegisterApiSpecs(options.schemas)
  ELSE UNCHANGED <<instances, assertions, errors, thrown, static, log>>

(***************************************************************************)
(* Specification: one test context                                         *)
(***************************************************************************)
CanCall(a) == Len(log[a]) < MaxCalls

\* the api specs are registered once, before the tests run
CanRegister == registerLog = <<>>

Next ==
  \/ \E a \in {1} : CanCall(a) /\ UNCHANGED runner
       /\ \E n \in PlanArgs : Plan(a, n)
  \/ \E a \in {1} : CanCall(a) /\ UNCHANGED runner
       /\ IncrementAssertionsCount(a)
  \/ \E a \in {1} : CanCall(a) /\ UNCHANGED runner
       /\ \E e \in BOOLEAN : assert(a, e)
  \/ \E a \in {1} : CanCall(a) /\ UNCHANGED runner
       /\ Fail(a)
  \/ \E a \in {1} : CanCall(a) /\ UNCHANGED runner
       /\ Validate(a)
  \/ \E a \in {1} : CanCall(a) /\ UNCHANGED runner
       /\ \E m \in BOOLEAN : IsValidApiResponse(a, m)
  \/ \E a \in {1} : CanCall(a) /\ UNCHANGED runner
       /\ \E h \in BOOLEAN : TestExecuted(a, h)
  \/ \E s \in SchemaLists : CanRegister /\ UNCHANGED runner
       /\ RegisterApiSpecs(s)

Spec == Init /\ [][Next]_vars

(***************************************************************************)
(* Specification: the runner executes one test with the plugin applied     *)
(***************************************************************************)
InBody(t) == phase[t] = "running" /\ Len(log[t]) < MaxBody

NextRunner ==
  \/ /\ executedCallbacks < MaxApplications
     /\ \A t \in Tests : phase[t] = "pending"
     /\ ApplyPlugin
  \/ \E s \in SchemaLists :
       /\ CanRegister
       /\ \A t \in Tests : phase[t] = "pending"
       /\ RegisterApiSpecs(s)
       /\ UNCHANGED runner
  \/ \E t \in {1} : StartTest(t)
  \/ \E t \in {1} : InBody(t) /\ (\E n \in PlanArgs : Plan(t, n))
                      /\ AfterBodyCall(t)
  \/ \E t \in {1} : InBody(t) /\ (\E e \in BOOLEAN : assert(t, e))
                      /\ AfterBodyCall(t)
  \/ \E t \in {1} : InBody(t) /\ (\E m \in BOOLEAN : IsValidApiResponse(t, m))
                      /\ AfterBodyCall(t)
  \/ \E t \in {1} : BodyThrows(t)
  \/ \E t \in {1} : BodyReturns(t)
  \/ \E t \in {1} : RunCallback(t)

SpecRunner == Init /\ [][NextRunner]_vars

(***************************************************************************)
(* Two tests that run concurrently, each on its own context                *)
(***************************************************************************)
InterleavedPlans == {Num(0), Num(1)}

CanInterleave(a) == Len(log[a]) < MaxInterleaved

NextTwo ==
  \/ \E a \in Tests : \E n \in InterleavedPlans :
       CanInterleave(a) /\ UNCHANGED runner /\ Plan(a, n)
  \/ \E a \in Tests :
       CanInterleave(a) /\ UNCHANGED runner /\ IncrementAssertionsCount(a)
  \/ \E a \in Tests : CanInterleave(a) /\ UNCHANGED runner /\ Fail(a)
  \/ \E a \in Tests : CanInterleave(a) /\ UNCHANGED runner /\ Validate(a)

SpecTwo == Init /\ [][NextTwo]_vars

(***************************************************************************)
(* A process that registers api schemas, before or after instances exist   *)
(***************************************************************************)
CanRegisterAgain == Len(registerLog) < MaxRegistrations

NextGate ==
  \/ \E l \in SchemaLists :
       CanRegisterAgain /\ UNCHANGED runner /\ RegisterApiSpecs(l)
  \/ \E o \in PluginOptions :
       CanRegisterAgain /\ UNCHANGED runner /\ AssertPlugin(o)
  \/ \E a \in Tests :
       CanInterleave(a) /\ UNCHANGED runner /\ IncrementAssertionsCount(a)
  \/ \E a \in Tests : \E matches \in BOOLEAN :
       CanInterleave(a) /\ UNCHANGED runner /\ IsValidApiResponse(a, matches)

SpecGate == Init /\ [][NextGate]_vars

(***************************************************************************)
(* A test that makes a subset assertion and repeats it, in either form,    *)
(* on the same pair of values                                              *)
(***************************************************************************)
FirstCall(a) == log[a] = <<>>
SecondCall(a) == Len(log[a]) = 1

NextSubset ==
  \/ \E a \in {1} :
       /\ FirstCall(a) /\ UNCHANGED runner
       /\ \E haystack \in Haystacks : \E needle \in Needles :
            ContainsSubset(a, haystack, needle)
  \/ \E a \in {1} :
       /\ FirstCall(a) /\ UNCHANGED runner
       /\ \E haystack \in Haystacks : \E needle \in Needles :
            NotContainsSubset(a, haystack, needle)
  \/ \E a \in {1} :
       SecondCall(a) /\ UNCHANGED runner
         /\ ContainsSubset(a, log[a][1].haystack, log[a][1].needle)
  \/ \E a \in {1} :
       SecondCall(a) /\ UNCHANGED runner
         /\ NotContainsSubset(a, log[a][1].haystack, log[a][1].needle)

SpecSubset == Init /\ [][NextSubset]_vars

(***************************************************************************)
(* A test that makes one rejection assertion, which settles before or      *)
(* after the completion callback runs                                      *)
(***************************************************************************)
RejectionOps == {"rejects", "doesNotRejects"}

CanAwait(a) == Len(log[a]) < MaxBody

NoRejectionYet(a) == \A i \in 1..Len(log[a]) : log[a][i].op \notin RejectionOps

NextRejects ==
  \/ \E a \in {1} : CanAwait(a) /\ UNCHANGED runner
       /\ \E n \in InterleavedPlans : Plan(a, n)
  \/ \E a \in {1} :
       /\ CanAwait(a) /\ NoRejectionYet(a) /\ UNCHANGED runner
       /\ \E fn \in Functions : \E e \in Expectations :
            Rejects(a, fn, e[1], e[2])
  \/ \E a \in {1} :
       /\ CanAwait(a) /\ NoRejectionYet(a) /\ UNCHANGED runner
       /\ \E fn \in Functions : \E e \in Expectations :
            DoesNotRejects(a, fn, e[1], e[2])
  \/ \E a \in {1} : UNCHANGED runner /\ RejectsSettled(a)
  \/ \E a \in {1} : UNCHANGED runner /\ DoesNotRejectsSettled(a)
  \/ \E a \in {1} : CanAwait(a) /\ UNCHANGED runner /\ TestExecuted(a, FALSE)

SpecRejects == Init /\ [][NextRejects]_vars

TypeOK ==
  /\ instances \subseteq Tests
  /\ \A a \in Tests :
       /\ assertions[a].total \in Nat
       /\ assertions[a].planned \in PlanArgs \cup {Undefined}
       /\ assertions[a].mismatchError \in {Null} \cup (1..Len(errors))
  /\ \A a \in Tests : thrown[a] \in {Null} \cup (1..Len(errors))
  /\ hasInstalledApiValidator \in BOOLEAN

(***************************************************************************)
(* Reading the log                                                         *)
(***************************************************************************)
LastOp(a) == IF log[a] = <<>> THEN "none" ELSE log[a][Len(log[a])].op

\* positions of the calls of `op` in the log of `a`
Positions(a, ops) == {i \in 1..Len(log[a]) : log[a][i].op \in ops}

\* the calls that go through incrementAssertionsCount
IncrementOps == {"incrementAssertionsCount", "assert", "fail"}

\* the log is: plan(n) with an integer n, then only increments, then validate
PlanThenRun(a) ==
  /\ Len(log[a]) >= 2
  /\ log[a][1].op = "plan"
  /\ log[a][1].arg.type = "number"
  /\ LastOp(a) = "validate"
  /\ \A i \in 2..(Len(log[a]) - 1) : log[a][i].op \in IncrementOps

\* validate() has just run on `a` and raised the stored mismatch error
Raised(a) ==
  /\ LastOp(a) = "validate"
  /\ thrown[a] # Null

(***************************************************************************)
(* Claims                                                                  *)
(***************************************************************************)
\* C1: on a fresh ledger, plan(n) followed by exactly m increments with
\* n # m makes validate() raise an error whose message is exactly
\* "Planned for {n} assertion{s}, but ran {m}".
C1_PlanMismatchMessage ==
  \A a \in Tests :
    PlanThenRun(a) =>
      LET n == log[a][1].arg.value
          m == Len(log[a]) - 2
      IN n # m =>
           /\ thrown[a] # Null
           /\ errors[thrown[a]].message =
                "Planned for " \o ToString(n) \o " assertion"
                  \o (IF n = 1 THEN "" ELSE "s") \o ", but ran " \o ToString(m)

\* plan(n), at least one increment, validate, with fewer planned than run
C1_Witness ==
  \E a \in Tests :
    /\ PlanThenRun(a)
    /\ Len(log[a]) >= 3
    /\ log[a][1].arg.value < Len(log[a]) - 2
    /\ Raised(a)

\* C2: validate() raises nothing exactly when plan() was never called or
\* the planned count equals total; in every other ledger state it raises.
C2_ValidateNoOpIff ==
  \A a \in Tests :
    LastOp(a) = "validate" =>
      (thrown[a] = Null <=>
         \/ Positions(a, {"plan"}) = {}
         \/ assertions[a].planned = Num(assertions[a].total))

\* plan(0) with one assertion run: validate() raised
C2_Witness ==
  \E a \in Tests :
    /\ Raised(a)
    /\ assertions[a].planned = Num(0)
    /\ assertions[a].total > 0

\* C3: in the mismatch message "assertion" gets the suffix "s" if and only
\* if planned # 1, whatever total is.
C3_SuffixOnPlannedOnly ==
  \A a \in Tests :
    Raised(a) =>
      LET planned == assertions[a].planned
          total == assertions[a].total
          message == errors[thrown[a]].message
      IN /\ planned = Num(1) =>
              message = "Planned for 1 assertion, but ran " \o ToString(total)
         /\ planned # Num(1) =>
              message = "Planned for " \o TemplateString(planned)
                          \o " assertions, but ran " \o ToString(total)
         /\ (planned = Num(1) /\ total = 2) =>
              message = "Planned for 1 assertion, but ran 2"
         /\ (planned = Num(2) /\ total = 1) =>
              message = "Planned for 2 assertions, but ran 1"
         /\ (planned = Num(0) /\ total = 1) =>
              message = "Planned for 0 assertions, but ran 1"

\* plan(1) with two assertions run: singular plan, plural run
C3_Witness ==
  \E a \in Tests :
    /\ Raised(a)
    /\ assertions[a].planned = Num(1)
    /\ assertions[a].total = 2

\* the position of the last plan() call in the log of `a`
LastPlan(a) ==
  CHOOSE k \in Positions(a, {"plan"}) : \A j \in Positions(a, {"plan"}) : j <= k

\* C4: when plan() is called more than once, validate() compares total
\* with the value of the last call and raises the error created by the last
\* call; planned values are not accumulated.
C4_LastPlanWins ==
  \A a \in Tests :
    (LastOp(a) = "validate" /\ Cardinality(Positions(a, {"plan"})) >= 2) =>
      LET k == LastPlan(a)
          last == log[a][k].arg
          total == assertions[a].total
      IN /\ assertions[a].planned = last
         /\ thrown[a] # Null <=> ~StrictEquals(last, Num(total))
         /\ thrown[a] # Null =>
              /\ errors[thrown[a]].stack = <<a, k>>
              /\ errors[thrown[a]].message =
                   "Planned for " \o TemplateString(last) \o " assertion"
                     \o (IF last = Num(1) THEN "" ELSE "s")
                     \o ", but ran " \o ToString(total)

\* two plan() calls with different values, then validate() raised
C4_Witness ==
  \E a \in Tests :
    /\ Raised(a)
    /\ \E i, j \in Positions(a, {"plan"}) : log[a][i].arg # log[a][j].arg
    /\ errors[thrown[a]].stack = <<a, LastPlan(a)>>

\* the step is a call of validate() on `a`, direct or from the hook
ValidateStep(a) ==
  /\ Len(log'[a]) > Len(log[a])
  /\ log'[a][Len(log'[a])].op = "validate"

\* C5: the error validate() raises is the object plan() created and stored;
\* validate() creates no error and changes only the message of that one.
C5_RaisesStoredError ==
  [][\A a \in Tests :
       ValidateStep(a) =>
         /\ Len(errors') = Len(errors)
         /\ thrown'[a] = Null => errors' = errors
         /\ thrown'[a] # Null =>
              LET e == thrown'[a]
              IN /\ e = assertions[a].mismatchError
                 /\ assertions'[a].mismatchError = e
                 /\ \E k \in Positions(a, {"plan"}) : errors[e].stack = <<a, k>>
                 /\ errors'[e].stack = errors[e].stack
                 /\ errors'[e].name = errors[e].name
                 /\ \A i \in (1..Len(errors)) \ {e} : errors'[i] = errors[i]
  ]_vars

\* validate() raised the stored error, created by an earlier plan() call
C5_Witness ==
  \E a \in Tests :
    /\ Raised(a)
    /\ thrown[a] = assertions[a].mismatchError
    /\ errors[thrown[a]].stack[2] < Len(log[a]) - 1
    /\ errors[thrown[a]].message # ""

PredicateOps == {"assert", "fail", "isValidApiResponse"}
AssertionOps == PredicateOps \cup {"incrementAssertionsCount"}

\* the step is a call of one of `ops` on `a`
CallStep(a, ops) ==
  /\ Len(log'[a]) > Len(log[a])
  /\ log'[a][Len(log[a]) + 1].op \in ops

\* C7: total starts at 0 and always equals the number of assertion calls
\* made on the instance; it never decreases, and plan() and validate() do
\* not change it.
C7_TotalCountsAssertionCalls ==
  /\ [](\A a \in Tests :
          assertions[a].total = Cardinality(Positions(a, AssertionOps)))
  /\ [][\A a \in Tests :
          /\ assertions'[a].total >= assertions[a].total
          /\ CallStep(a, {"plan", "validate", "executed"}) =>
               assertions'[a].total = assertions[a].total]_vars

\* C8: a call of an assertion predicate increases total by exactly 1,
\* whether the predicate passes or raises.
C8_PredicateCallIncrements ==
  [][\A a \in Tests :
       CallStep(a, PredicateOps) =>
         assertions'[a].total = assertions[a].total + 1]_vars

\* C9: isValidApiResponse increments total by 1 like every other predicate,
\* so plan(1) with isValidApiResponse as the only assertion passes
\* validate().
C9_SchemaPredicateIncrements ==
  /\ [][\A a \in Tests :
          CallStep(a, {"isValidApiResponse"}) =>
            assertions'[a].total = assertions[a].total + 1]_vars
  /\ [](\A a \in Tests :
          ( /\ LastOp(a) = "validate"
            /\ assertions[a].planned = Num(1)
            /\ Cardinality(Positions(a, {"isValidApiResponse"})) = 1
            /\ Positions(a, IncrementOps) = {} ) => thrown[a] = Null)

\* the step is the plugin's callback on `a`, called with the flag `h`
HookStep(a, h) ==
  /\ Len(log'[a]) > Len(log[a])
  /\ log'[a][Len(log[a]) + 1] = [op |-> "executed", hasError |-> h]

\* C10: the completion hook calls validate() of the test's ledger if and
\* only if hasError is false; when it is true the ledger is neither
\* validated nor modified.
C10_HookValidatesIffNoError ==
  [][\A a \in Tests : \A h \in BOOLEAN :
       HookStep(a, h) =>
         /\ ~h <=> ValidateStep(a)
         /\ ~h => (thrown'[a] = Null <=>
                     \/ assertions[a].planned = Undefined
                     \/ StrictEquals(assertions[a].planned,
                                     Num(assertions[a].total)))
         /\ h => /\ assertions' = assertions
                 /\ errors' = errors
                 /\ instances' = instances
                 /\ thrown'[a] = Null
         /\ assertions'[a] = assertions[a]]_vars

\* the hook was called with hasError true on a mismatching ledger and left
\* it alone, then with hasError false, and validate() raised
C10_Witness ==
  \E a \in Tests : \E i \in 1..Len(log[a]) :
    /\ log[a][i] = [op |-> "executed", hasError |-> TRUE]
    /\ i + 2 = Len(log[a])
    /\ log[a][i + 1] = [op |-> "executed", hasError |-> FALSE]
    /\ Raised(a)

(***************************************************************************)
(* Claims about a test executed by the runner                              *)
(***************************************************************************)
Ended(t) == phase[t] = "ended"

\* the body of the test finished without a failure: the callbacks were
\* called with hasError false
BodyPassed(t) ==
  \E i \in Positions(t, {"executed"}) : ~log[t][i].hasError

\* the test is reported as failed by the plan mismatch alone when the
\* number of calls of `ops` differs from the plan, and as passed otherwise
PlanReported(t, ops) ==
  LET n == assertions[t].planned.value
      m == Cardinality(Positions(t, ops))
  IN /\ m # n =>
          /\ Len(testErrors[t]) = 1
          /\ testErrors[t][1].phase = "test"
          /\ errors[testErrors[t][1].error].message =
               "Planned for " \o ToString(n) \o " assertion"
                 \o (IF n = 1 THEN "" ELSE "s") \o ", but ran " \o ToString(m)
     /\ m = n => testErrors[t] = <<>>

\* C11: a test body that raises no failure, declares plan(n) and runs m
\* assertions is reported as failed with exactly one error, of phase 'test'
\* and with the plan-mismatch message, when m # n, and as passed with no
\* errors when m = n.
C11_PlanMismatchReported ==
  \A t \in Tests :
    (Ended(t) /\ BodyPassed(t) /\ assertions[t].planned.type = "number") =>
      PlanReported(t, AssertionOps)

\* the same holds of the bodies that make no isValidApiResponse call
PlanMismatchReported_Counted ==
  \A t \in Tests :
    ( /\ Ended(t) /\ BodyPassed(t)
      /\ assertions[t].planned.type = "number"
      /\ Positions(t, {"isValidApiResponse"}) = {} ) =>
      PlanReported(t, IncrementOps)

\* C12: when the body declares a plan, runs another number of assertions
\* and throws an unrelated error, the test is reported with exactly one
\* error, the thrown one; the plan mismatch is neither reported nor
\* evaluated.
C12_FailureTakesPrecedence ==
  \A t \in Tests :
    (Ended(t) /\ Positions(t, {"throw"}) # {}) =>
      /\ Len(testErrors[t]) = 1
      /\ LET e == errors[testErrors[t][1].error]
         IN /\ e.name = "Error"
            /\ e.message = "foo"
            /\ \E i \in Positions(t, {"throw"}) : e.stack = <<t, i>>
      /\ Positions(t, {"validate"}) = {}
      /\ assertions[t].mismatchError # Null =>
           errors[assertions[t].mismatchError].message = ""

\* plan(1), no assertion, throw: every registered callback has been called
C12_Witness ==
  \E t \in Tests :
    /\ Ended(t)
    /\ Positions(t, {"throw"}) # {}
    /\ assertions[t].planned = Num(1)
    /\ assertions[t].total = 0
    /\ Cardinality(Positions(t, {"executed"})) = executedCallbacks

\* every validate() call comes after every plan and assertion call
ValidatedLast(t) ==
  \A v \in Positions(t, {"validate"}) :
    \A c \in Positions(t, AssertionOps \cup {"plan"}) : c < v

\* C13 as stated: a test that completes without a recorded failure has its
\* ledger validated exactly once, after all its assertion calls, however
\* many times the plugin function has been applied.
C13_ValidatedExactlyOnce ==
  \A t \in Tests :
    (Ended(t) /\ testErrors[t] = <<>>) =>
      /\ Cardinality(Positions(t, {"validate"})) = 1
      /\ ValidatedLast(t)

\* what the code guarantees: when the body completes without a failure,
\* validate() is invoked after all the assertion calls, once by each
\* callback the runner calls: exactly once when the plugin function has
\* been applied once, once per application when no call raises.
C13_ValidatedOncePerApplication ==
  \A t \in Tests :
    (Ended(t) /\ BodyPassed(t)) =>
      LET k == Cardinality(Positions(t, {"validate"}))
      IN /\ k >= 1
         /\ k <= executedCallbacks
         /\ executedCallbacks = 1 => k = 1
         /\ testErrors[t] = <<>> => k = executedCallbacks
         /\ testErrors[t] # <<>> => k = 1
         /\ ValidatedLast(t)

\* the plugin function applied twice, plan(1) and one assertion: the test
\* passed and its ledger was validated twice
C13_Witness ==
  \E t \in Tests :
    /\ Ended(t)
    /\ testErrors[t] = <<>>
    /\ executedCallbacks = 2
    /\ assertions[t].planned = Num(1)
    /\ assertions[t].total = 1
    /\ Cardinality(Positions(t, {"validate"})) = 2

(***************************************************************************)
(* Isolation of the ledgers                                                *)
(***************************************************************************)
\* the ledger of `a` after the first i calls of its log made on their own:
\* planned, total, and the call that created the stored error (0: none)
\* with the message that error carries
RECURSIVE Alone(_, _)
Alone(a, i) ==
  IF i = 0
  THEN [planned |-> Undefined, total |-> 0, mismatchError |-> Null,
        message |-> ""]
  ELSE LET led == Alone(a, i - 1)
           op == log[a][i].op
       IN CASE op = "plan" ->
                 [led EXCEPT !.planned = log[a][i].arg,
                             !.mismatchError = i,
                             !.message = ""]
            [] op \in IncrementOps ->
                 [led EXCEPT !.total = @ + 1]
            [] op = "validate" ->
                 IF ValidateOutcome(led) = "throw"
                 THEN [led EXCEPT !.message =
                         MismatchMessage(led.planned, led.total)]
                 ELSE led
            [] OTHER -> led

\* the ledger of `a` is the one its own calls produce
RanAlone(a) ==
  LET led == Alone(a, Len(log[a]))
      own == assertions[a]
  IN /\ own.planned = led.planned
     /\ own.total = led.total
     /\ own.mismatchError = Null <=> led.mismatchError = Null
     /\ own.mismatchError # Null =>
          /\ errors[own.mismatchError].stack = <<a, led.mismatchError>>
          /\ errors[own.mismatchError].message = led.message

\* the step is a call on the instance of `a`
CallOn(a) == log'[a] # log[a]

\* C14: under any interleaving of the plan and assertion calls of two
\* tests, the total, the planned value and the stored error of each ledger
\* are what the calls of that test alone produce, and a call on one
\* instance changes nothing of the other instance's ledger.
C14_LedgersIsolated ==
  /\ [](\A a \in Tests : RanAlone(a))
  /\ [][\A a \in Tests : CallOn(a) =>
         \A b \in Tests \ {a} :
           /\ assertions'[b] = assertions[b]
           /\ log'[b] = log[b]
           /\ thrown'[b] = thrown[b]
           /\ assertions[b].mismatchError # Null =>
                errors'[assertions[b].mismatchError] =
                  errors[assertions[b].mismatchError]]_vars

\* both tests planned one assertion; one ran it, the other did not and its
\* validate() raised
C14_Witness ==
  /\ instances = Tests
  /\ assertions[1].planned = Num(1) /\ assertions[1].total = 1
  /\ assertions[2].planned = Num(1) /\ assertions[2].total = 0
  /\ assertions[1].mismatchError > assertions[2].mismatchError
  /\ thrown[2] = assertions[2].mismatchError
  /\ LastOp(2) = "validate"

(***************************************************************************)
(* The schema gate                                                         *)
(***************************************************************************)
NotConfigured == "Cannot validate responses without defining api schemas"

\* the call the step appends to the log of `a`
NewCall(a) == log'[a][Len(log[a]) + 1]

\* the error the step's call on `a` raised is the gate's
RaisedNotConfigured(a) ==
  /\ thrown'[a] # Null
  /\ errors'[thrown'[a]].name = "Error"
  /\ errors'[thrown'[a]].message = NotConfigured

\* the outcome of the step's call on `a` is the matcher's verdict
Delegated(a) ==
  /\ thrown'[a] = Null <=> NewCall(a).matches
  /\ thrown'[a] # Null => errors'[thrown'[a]].name = "AssertionError"

\* C15: when no registerApiSpecs call happened before it, isValidApiResponse
\* raises the error 'Cannot validate responses without defining api schemas'
\* whatever the matcher would say; once registration has happened it never
\* raises that error and its outcome is the matcher's.
C15_GateBeforeDelegation ==
  [][\A a \in Tests :
       CallStep(a, {"isValidApiResponse"}) =>
         IF registerLog = <<>>
         THEN RaisedNotConfigured(a)
         ELSE Delegated(a) /\ ~RaisedNotConfigured(a)]_vars

\* a matching response was refused before the registration and a matching
\* response was accepted after it
C15_Witness ==
  \E a \in Tests :
    /\ Len(log[a]) = 2
    /\ log[a][1] = [op |-> "isValidApiResponse", matches |-> TRUE]
    /\ log[a][2] = [op |-> "isValidApiResponse", matches |-> TRUE]
    /\ errors # <<>> /\ errors[1].message = NotConfigured
    /\ errors[1].stack = <<a, 1>>
    /\ registerLog # <<>>
    /\ thrown[a] = Null

\* C16: the flag is one value of the process: false initially, true from
\* the first registerApiSpecs call on, never set back to false; every
\* instance reads it, so an instance created before the registration
\* passes the gate afterwards like one created after it.
C16_ProcessWideFlag ==
  /\ [](hasInstalledApiValidator <=> registerLog # <<>>)
  /\ [][hasInstalledApiValidator => hasInstalledApiValidator']_vars
  /\ [][\A a \in Tests :
         (CallStep(a, {"isValidApiResponse"}) /\ hasInstalledApiValidator) =>
           /\ ~RaisedNotConfigured(a)
           /\ thrown'[a] = Null <=> NewCall(a).matches]_vars

\* instance 1 was refused before the registration and passes after two
\* registrations, like instance 2, which was created after them
C16_Witness ==
  /\ Len(registerLog) = 2
  /\ log[1] = <<[op |-> "isValidApiResponse", matches |-> FALSE],
                [op |-> "isValidApiResponse", matches |-> TRUE]>>
  /\ log[2] = <<[op |-> "isValidApiResponse", matches |-> TRUE]>>
  /\ Len(errors) = 1
  /\ errors[1].message = NotConfigured /\ errors[1].stack = <<1, 1>>
  /\ thrown[1] = Null /\ thrown[2] = Null
  /\ hasInstalledApiValidator

\* the step is a registerApiSpecs call
RegisterStep == Len(registerLog') = Len(registerLog) + 1

\* the paths the external library receives for a list of paths or URLs
ForwardedPaths(l) ==
  [i \in 1..Len(l) |-> IF l[i].type = "URL" THEN l[i].pathname ELSE l[i].value]

\* C17: each registerApiSpecs call, the second like the first, leaves the
\* flag true and forwards its own schema locations; the locations in
\* effect are those of the last call.
C17_LastRegistrationWins ==
  /\ [][RegisterStep =>
         /\ hasInstalledApiValidator'
         /\ apiDefinitionsPath' =
              ForwardedPaths(registerLog'[Len(registerLog')])]_vars
  /\ [](registerLog # <<>> =>
         apiDefinitionsPath = ForwardedPaths(registerLog[Len(registerLog)]))

\* a path was registered, then a URL: the URL's path is in effect
C17_Witness ==
  /\ Len(registerLog) = 2
  /\ registerLog[1] = <<StringPath("/api-spec.json")>>
  /\ registerLog[2] = <<FileURL("/v2/api-spec.json")>>
  /\ apiDefinitionsPath = <<"/v2/api-spec.json">>
  /\ hasInstalledApiValidator

(***************************************************************************)
(* The subset assertions                                                   *)
(***************************************************************************)
SubsetOps == {"containsSubset", "notContainsSubset"}

\* the last call on `a`
LastCall(a) == log[a][Len(log[a])]

\* the last call on `a` is `op` and it returned without raising
Passed(a) == thrown[a] = Null

\* C18: for every pair (haystack, needle) exactly one of containsSubset and
\* notContainsSubset raises an assertion error: containsSubset raises when
\* subsetCompare(needle, haystack) is false, notContainsSubset when it is
\* true.
C18_NegationOfContainsSubset ==
  /\ [](\A a \in Tests :
          (log[a] # <<>> /\ LastOp(a) \in SubsetOps) =>
            LET e == LastCall(a)
            IN /\ Passed(a) <=>
                    (subsetCompare(e.needle, e.haystack)
                       <=> e.op = "containsSubset")
               /\ ~Passed(a) =>
                    /\ errors[thrown[a]].name = "AssertionError"
                    /\ errors[thrown[a]].operator = e.op)
  /\ [][\A a \in Tests :
         ( /\ Len(log[a]) = 1 /\ Len(log'[a]) = 2
           /\ log[a][1].op \in SubsetOps /\ log'[a][2].op \in SubsetOps
           /\ log[a][1].op # log'[a][2].op
           /\ log[a][1].haystack = log'[a][2].haystack
           /\ log[a][1].needle = log'[a][2].needle ) =>
           (thrown[a] = Null <=> thrown'[a] # Null)]_vars

\* containsSubset({a: 1, b: 2}, {a: 1}) passed and notContainsSubset of the
\* same pair raised
C18_Witness ==
  /\ Len(log[1]) = 2
  /\ log[1][1] = [op |-> "containsSubset",
                  haystack |-> Obj(Keys, Num(1), Num(2)),
                  needle |-> Obj({"a"}, Num(1), Undefined)]
  /\ log[1][2].op = "notContainsSubset"
  /\ Len(errors) = 1
  /\ thrown[1] = 1
  /\ errors[1].operator = "notContainsSubset"

\* expected matches actual: strict equality on primitives, the subset
\* relation on arrays and objects
MatchesValue(expected, actual) ==
  IF expected.type \in {"array", "object"}
  THEN subsetCompare(expected, actual)
  ELSE expected.type = actual.type /\ expected = actual

\* the last call on `a` is containsSubset with both arguments of type `t`
ContainsSubsetOf(a, t) ==
  /\ log[a] # <<>>
  /\ LastOp(a) = "containsSubset"
  /\ LastCall(a).needle.type = t
  /\ LastCall(a).haystack.type = t

\* C19: on plain objects the match holds exactly when every own key of
\* expected is a key of actual with a matching value; keys only actual has
\* are ignored and a key of expected missing from actual makes it fail.
C19_ObjectSubsetIgnoresExtraKeys ==
  \A a \in Tests :
    ContainsSubsetOf(a, "object") =>
      LET expected == LastCall(a).needle
          actual == LastCall(a).haystack
      IN /\ Passed(a) <=>
              \A k \in expected.keys :
                /\ k \in actual.keys
                /\ MatchesValue(expected.props[k], actual.props[k])
         /\ (expected.keys \ actual.keys # {}) => ~Passed(a)
         /\ ( /\ expected.keys \subseteq actual.keys
              /\ \A k \in expected.keys :
                   expected.props[k] = actual.props[k] ) => Passed(a)

\* containsSubset({a: 1, b: 2}, {a: 1}) passed
C19_Witness ==
  /\ Len(log[1]) = 1
  /\ log[1][1] = [op |-> "containsSubset",
                  haystack |-> Obj(Keys, Num(1), Num(2)),
                  needle |-> Obj({"a"}, Num(1), Undefined)]
  /\ Passed(1)

\* C20: on arrays the match holds exactly when every element of expected
\* is matched by some element of actual, at any position; an empty
\* expected array matches every array, the empty one included.
C20_ArraySubsetUnordered ==
  \A a \in Tests :
    ContainsSubsetOf(a, "array") =>
      LET expected == LastCall(a).needle.items
          actual == LastCall(a).haystack.items
      IN /\ Passed(a) <=>
              \A i \in 1..Len(expected) : \E j \in 1..Len(actual) :
                MatchesValue(expected[i], actual[j])
         /\ expected = <<>> => Passed(a)

\* containsSubset([1, 2, 3], [2, 1]) passed
C20_Witness ==
  /\ Len(log[1]) = 1
  /\ log[1][1] = [op |-> "containsSubset",
                  haystack |-> Arr(<<Num(1), Num(2), Num(3)>>),
                  needle |-> Arr(<<Num(2), Num(1)>>)]
  /\ Passed(1)

IsPrimitive(x) == x.type \notin {"array", "object"}

\* the last call on `a` is containsSubset(haystack, needle)
ContainsSubsetCall(a) == log[a] # <<>> /\ LastOp(a) = "containsSubset"

\* C21: when expected is a primitive the match holds exactly when actual
\* is the same value of the same type: 1 does not match "1", null does not
\* match undefined, and (strict equality) NaN does not match NaN.
C21_PrimitiveStrictEquality ==
  \A a \in Tests :
    (ContainsSubsetCall(a) /\ IsPrimitive(LastCall(a).needle)) =>
      LET expected == LastCall(a).needle
          actual == LastCall(a).haystack
      IN Passed(a) <=>
           /\ expected.type = actual.type
           /\ expected.type # "NaN"
           /\ expected = actual

\* containsSubset("1", 1) raised
C21_Witness ==
  /\ Len(log[1]) = 1
  /\ log[1][1] = [op |-> "containsSubset", haystack |-> Str("1"),
                  needle |-> Num(1)]
  /\ ~Passed(1)
  /\ errors[thrown[1]].operator = "containsSubset"

\* expected and actual are of different kinds: array against non-array,
\* object against primitive or null, primitive against array or object
TypeMismatch(expected, actual) ==
  \/ expected.type = "array" /\ actual.type # "array"
  \/ expected.type = "object" /\ IsPrimitive(actual)
  \/ IsPrimitive(expected) /\ actual.type \in {"array", "object"}

\* a mismatch of kinds at the top level, under a key of two objects, or
\* between the single element of expected and every element of actual
MismatchSomewhere(expected, actual) ==
  \/ TypeMismatch(expected, actual)
  \/ /\ expected.type = "object" /\ actual.type = "object"
     /\ \E k \in expected.keys \cap actual.keys :
          TypeMismatch(expected.props[k], actual.props[k])
  \/ /\ expected.type = "array" /\ actual.type = "array"
     /\ \E i \in 1..Len(expected.items) :
          \A j \in 1..Len(actual.items) :
            TypeMismatch(expected.items[i], actual.items[j])

\* C22: a mismatch of kinds is a non-match, at the top level and at a
\* nested level: containsSubset raises.
C22_TypeMismatchNeverMatches ==
  \A a \in Tests :
    ( /\ ContainsSubsetCall(a)
      /\ MismatchSomewhere(LastCall(a).needle, LastCall(a).haystack) ) =>
      ~Passed(a)

\* containsSubset({a: 1, b: 1}, {a: [1]}) raised: the mismatch is below a
\* key the two objects share
C22_Witness ==
  /\ Len(log[1]) = 1
  /\ log[1][1] = [op |-> "containsSubset",
                  haystack |-> Obj(Keys, Num(1), Num(1)),
                  needle |-> Obj({"a"}, Arr(<<Num(1)>>), Undefined)]
  /\ ~Passed(1)

\* x is built from JSON primitives, arrays and plain objects
RECURSIVE JsonLike(_)
JsonLike(x) ==
  CASE x.type = "array" -> \A i \in 1..Len(x.items) : JsonLike(x.items[i])
    [] x.type = "object" -> \A k \in x.keys : JsonLike(x.props[k])
    [] OTHER -> x.type # "NaN"

\* C23: matching is reflexive on JSON-like values: containsSubset(x, x)
\* never raises.
C23_Reflexive ==
  \A a \in Tests :
    ( /\ ContainsSubsetCall(a)
      /\ LastCall(a).needle = LastCall(a).haystack
      /\ JsonLike(LastCall(a).needle) ) => Passed(a)

\* containsSubset(x, x) passed for x = {a: [1], b: {a: 1}}
C23_Witness ==
  /\ Len(log[1]) = 1
  /\ log[1][1] = [op |-> "containsSubset",
                  haystack |-> Obj(Keys, Arr(<<Num(1)>>),
                                   Obj({"a"}, Num(1), Undefined)),
                  needle |-> Obj(Keys, Arr(<<Num(1)>>),
                                 Obj({"a"}, Num(1), Undefined))]
  /\ Passed(1)

\* C24: the error a subset assertion raises carries the needle as expected
\* and the haystack as actual, with the name of the assertion as operator.
C24_ErrorCarriesBothValues ==
  \A a \in Tests :
    (log[a] # <<>> /\ LastOp(a) \in SubsetOps /\ ~Passed(a)) =>
      LET e == errors[thrown[a]]
      IN /\ e.name = "AssertionError"
         /\ e.expected = LastCall(a).needle
         /\ e.actual = LastCall(a).haystack
         /\ e.operator = LastOp(a)
         /\ e.stack = <<a, Len(log[a])>>

\* containsSubset({a: 1}, {a: 1, b: 2}) raised, then notContainsSubset of
\* the same pair passed
C24_Witness ==
  /\ Len(log[1]) = 2
  /\ log[1][1] = [op |-> "containsSubset",
                  haystack |-> Obj({"a"}, Num(1), Undefined),
                  needle |-> Obj(Keys, Num(1), Num(2))]
  /\ log[1][2].op = "notContainsSubset"
  /\ Passed(1)
  /\ Len(errors) = 1
  /\ errors[1].expected = Obj(Keys, Num(1), Num(2))
  /\ errors[1].actual = Obj({"a"}, Num(1), Undefined)

\* the elements of an array, as a set
Elements(array) == {array.items[i] : i \in 1..Len(array.items)}

\* C26: array matching is not injective and compares no lengths: when
\* every element of expected is an element of actual, the match holds,
\* also when expected repeats an element and is longer than actual.
C26_ArrayMatchNotInjective ==
  \A a \in Tests :
    ( /\ ContainsSubsetOf(a, "array")
      /\ JsonLike(LastCall(a).needle)
      /\ Elements(LastCall(a).needle) \subseteq
           Elements(LastCall(a).haystack) ) => Passed(a)

\* containsSubset([1], [1, 1]) passed
C26_Witness ==
  /\ Len(log[1]) = 1
  /\ log[1][1] = [op |-> "containsSubset",
                  haystack |-> Arr(<<Num(1)>>),
                  needle |-> Arr(<<Num(1), Num(1)>>)]
  /\ Passed(1)

(***************************************************************************)
(* validate() called again, and tests without a plan                       *)
(***************************************************************************)
\* C25: validate() leaves total, planned and the stored error as they are,
\* whether it returns or throws; it throws whenever the plan and the total
\* differ, and called again with no call in between it does the same
\* again: returns, or raises the same error object with the same message.
C25_ValidateIdempotent ==
  [][\A a \in Tests :
       ValidateStep(a) =>
         /\ assertions'[a] = assertions[a]
         /\ thrown'[a] = Null <=>
              \/ assertions[a].planned = Undefined
              \/ /\ assertions[a].planned.type = "number"
                 /\ assertions[a].planned.value = assertions[a].total
         /\ LastOp(a) = "validate" =>
              /\ thrown'[a] = thrown[a]
              /\ errors' = errors]_vars

\* validate() raised 'Planned for 1 assertion, but ran 0' twice in a row
C25_Witness ==
  \E a \in Tests :
    /\ Len(log[a]) = 3
    /\ log[a][1] = [op |-> "plan", arg |-> Num(1)]
    /\ log[a][2].op = "validate" /\ log[a][3].op = "validate"
    /\ thrown[a] = assertions[a].mismatchError
    /\ assertions[a].total = 0
    /\ errors[thrown[a]].message = "Planned for 1 assertion, but ran 0"

\* C28: a test whose body never calls plan() is never failed by the
\* plugin: the validate() of the completion callback returns, whatever
\* the body ran, also when the callback is the first to read ctx.assert
\* and so creates the instance.
C28_NoPlanNeverFails ==
  /\ [][\A t \in Tests :
         (ValidateStep(t) /\ Positions(t, {"plan"}) = {}) =>
           /\ thrown'[t] = Null
           /\ errors' = errors
           /\ testErrors' = testErrors]_vars
  /\ [](\A t \in Tests :
         (Ended(t) /\ Positions(t, {"plan"}) = {}) =>
           IF BodyPassed(t)
           THEN /\ testErrors[t] = <<>>
                /\ Cardinality(Positions(t, {"validate"})) = executedCallbacks
           ELSE /\ Len(testErrors[t]) = 1
                /\ Positions(t, {"validate"}) = {})

\* the body returned without touching ctx.assert: the instance exists
\* only because the callback read it, and the test passed
C28_Witness ==
  \E t \in Tests :
    /\ Ended(t)
    /\ Positions(t, AssertionOps \cup {"plan", "throw"}) = {}
    /\ t \in instances
    /\ assertions[t] = NewAssertions
    /\ testErrors[t] = <<>>
    /\ Positions(t, {"validate"}) # {}

(***************************************************************************)
(* The rejection assertions                                                *)
(***************************************************************************)
\* the promise of a call of `operator` on `a`, made with a function, has
\* just settled
JustSettled(a, operator) ==
  /\ LastOp(a) = "settled"
  /\ log[a][LastCall(a).call].op = operator
  /\ log[a][LastCall(a).call].fn.type = "function"

\* the call whose promise has just settled
SettledCall(a) == log[a][LastCall(a).call]

\* C27: doesNotRejects passes when fn raises nothing, and when an error
\* class is supplied and the raised value is not an instance of it,
\* whatever message or regular expression comes with the class.
C27_DoesNotRejectsFailsOnlyOnMatch ==
  \A a \in Tests :
    JustSettled(a, "doesNotRejects") =>
      LET call == SettledCall(a)
          raised == RaisedException(call.fn)
      IN /\ call.fn.settles = "resolves" => Passed(a)
         /\ ( /\ Truthy(raised)
              /\ call.errType.type = "function"
              /\ ~InstanceOf(raised, call.errType) ) => Passed(a)

\* what holds when the class does not match: doesNotRejects passes unless
\* the message of the raised value matches the regular expression or
\* equals the message that comes with the class
DoesNotRejects_ClassMismatch ==
  \A a \in Tests :
    JustSettled(a, "doesNotRejects") =>
      LET call == SettledCall(a)
          raised == RaisedException(call.fn)
      IN ( /\ Truthy(raised)
           /\ call.errType.type = "function"
           /\ ~InstanceOf(raised, call.errType) ) =>
           (Passed(a) <=>
              ~ \/ /\ call.regExp.type = "RegExp"
                    /\ RegExpTest(call.regExp, MessageOf(raised))
                 \/ /\ call.regExp.type = "string"
                    /\ call.regExp.value # ""
                    /\ MessageOf(raised) = call.regExp)

\* the class, the regular expression and the exact message a call
\* supplies: the third argument, or the second when there is no third
SuppliedRegex(call) ==
  IF call.regExp.type = "RegExp" THEN call.regExp
  ELSE IF call.regExp.type = "undefined" /\ call.errType.type = "RegExp"
       THEN call.errType ELSE Undefined
SuppliedMessage(call) ==
  IF call.regExp.type = "string" THEN call.regExp
  ELSE IF call.regExp.type = "undefined" /\ call.errType.type = "string"
       THEN call.errType ELSE Undefined

\* the raised value meets every expectation the call supplies
Satisfies(raised, call) ==
  /\ call.errType.type = "function" => InstanceOf(raised, call.errType)
  /\ SuppliedRegex(call) # Undefined =>
       RegExpTest(SuppliedRegex(call), MessageOf(raised))
  /\ SuppliedMessage(call) # Undefined =>
       MessageOf(raised) = SuppliedMessage(call)

\* C30: rejects passes if and only if fn raised a truthy value that meets
\* the class, regular expression and exact message supplied; when fn
\* raises nothing or a falsy value, rejects fails with 'expected ... to
\* throw an error' and doesNotRejects passes.
C30_RejectsPassesIffSatisfied ==
  \A a \in Tests :
    /\ JustSettled(a, "rejects") =>
         LET call == SettledCall(a)
             raised == RaisedException(call.fn)
         IN /\ Passed(a) <=> (Truthy(raised) /\ Satisfies(raised, call))
            /\ ~Truthy(raised) =>
                 /\ ~Passed(a)
                 /\ errors[thrown[a]].message =
                      "expected #{this} to throw an error"
    /\ JustSettled(a, "doesNotRejects") =>
         (~Truthy(RaisedException(SettledCall(a).fn)) => Passed(a))

\* the same, over the calls that supply no empty string as the message
Rejects_PassesIffSatisfied_NonEmpty ==
  \A a \in Tests :
    ( /\ JustSettled(a, "rejects")
      /\ SuppliedMessage(SettledCall(a)) # Str("") ) =>
      LET call == SettledCall(a)
          raised == RaisedException(call.fn)
      IN /\ Passed(a) <=> (Truthy(raised) /\ Satisfies(raised, call))
         /\ ~Truthy(raised) =>
              errors[thrown[a]].message = "expected #{this} to throw an error"

\* C29: rejects and doesNotRejects count at the call, before fn is awaited,
\* once per call whether fn is not a function, resolves or rejects, and
\* the settling of the promise counts nothing more; validate() of the
\* completion callback therefore counts a call that is still pending.
C29_CountedAtCallTime ==
  /\ [][\A a \in Tests :
         /\ CallStep(a, RejectionOps) =>
              /\ assertions'[a].total = assertions[a].total + 1
              /\ thrown'[a] = Null
         /\ CallStep(a, {"settled"}) => assertions'[a] = assertions[a]]_vars
  /\ [](\A a \in Tests :
         /\ assertions[a].total = Cardinality(Positions(a, RejectionOps))
         /\ (LastOp(a) = "validate" /\ assertions[a].planned.type = "number") =>
              (thrown[a] = Null <=>
                 assertions[a].planned.value =
                   Cardinality(Positions(a, RejectionOps))))

\* plan(1), a rejects call whose promise is pending, and the callback's
\* validate() returned
C29_Witness ==
  \E a \in Tests :
    /\ Len(log[a]) = 4
    /\ log[a][1] = [op |-> "plan", arg |-> Num(1)]
    /\ log[a][2].op = "rejects"
    /\ log[a][2].fn = Raises(ErrorObject("Error", "foo"))
    /\ log[a][4].op = "validate"
    /\ AwaitedCalls(a, "rejects") = {2}
    /\ thrown[a] = Null
====
